---- MODULE Spec2Model ----
(***************************************************************************)
(* Model of image_slicer.py: the slide loop of main, the grid planning     *)
(* loop, detect_empty_slide, draw_gridmap, the threaded export of          *)
(* export_region_images and the cumulative report.                         *)
(*                                                                         *)
(* Strings that the program takes apart (slide paths) are sequences of     *)
(* character codes; strings that the program only builds by formatting     *)
(* are tuples of the formatted fields.                                     *)
(***************************************************************************)
EXTENDS Integers, Sequences, FiniteSets, TLC

VARIABLES
    mrxs_files,         \* sorted list of slide paths (line 247, 253)
    image_width,        \* cfg.image_width
    image_height,       \* cfg.image_height
    save_cut_images,    \* cfg.save_cut_images
    export_format,      \* cfg.export_format
    pc,                 \* position of main
    idx,                \* index in mrxs_files of the slide of the current iteration
    num_levels,         \* slide.level_count of the open slide
    work_area,          \* bbox on the preview level, or None
    work_area_max_res,  \* work area in full resolution
    num_images_x,
    num_images_y,
    i,                  \* column counter of the planning loop
    j,                  \* row counter of the planning loop
    num,                \* running count of content tiles
    slide_grids,        \* list of SlideGrid of the current slide
    filename,           \* manifest path returned by draw_gridmap
    tasks,              \* state of each export task of the current slide
    written,            \* writes done by the export tasks of the current slide
    fs,                 \* files under export_folder: path -> content
    report,             \* the DataFrame
    report_xlsx,        \* the persisted report.xlsx
    status,             \* per slide: what happened to it so far
    args,               \* inputs of a function applied on its own
    result              \* its result

vars == <<mrxs_files, image_width, image_height, save_cut_images, export_format,
          pc, idx, num_levels, work_area, work_area_max_res, num_images_x,
          num_images_y, i, j, num, slide_grids, filename, tasks, written, fs,
          report, report_xlsx, status, args, result>>

cfgVars == <<mrxs_files, image_width, image_height, save_cut_images, export_format>>
planVars == <<work_area_max_res, num_images_x, num_images_y, i, j, num, slide_grids>>
pureVars == <<args, result>>

\* getbbox() of a blank image
NoBox == <<>>

\* no function applied yet
NoResult == <<>>

\* no manifest path yet
NoPath == [kind |-> "none", folder |-> <<>>, fmt |-> "", w |-> 0, h |-> 0, n |-> 0]

(***************************************************************************)
(* Bounds and input sets                                                   *)
(***************************************************************************)
MaxSlides == 2
MaxPixels == 5
MaxW == 2
MaxH == 1
MaxLevels == 4

SPACE == 32
SLASH == 47
UNDERSCORE == 95

\* "a b/s", "a_b/s", "c/s", "c/t" (the .mrxs suffix is the same for all)
CandidatePaths ==
    { <<97, 32, 98, 47, 115>>, <<97, 95, 98, 47, 115>>,
      <<99, 47, 115>>, <<99, 47, 116>> }

TileSizes == { <<2, 3>> }
ExportFormats == { "png", "jpg" }
LevelCounts == { 1, 3, 4, 5 }
BBoxes == { <<0, 0, 1, 1>>, <<1, 0, 3, 1>> }

(***************************************************************************)
(* Strings                                                                 *)
(***************************************************************************)
RECURSIVE LexLess(_, _)
LexLess(s, t) ==
    IF s = <<>> THEN t # <<>>
    ELSE IF t = <<>> THEN FALSE
    ELSE IF Head(s) # Head(t) THEN Head(s) < Head(t)
    ELSE LexLess(Tail(s), Tail(t))

RECURSIVE SortedList(_)
SortedList(S) ==
    IF S = {} THEN <<>>
    ELSE LET m == CHOOSE x \in S : \A y \in S \ {x} : LexLess(x, y)
         IN  <<m>> \o SortedList(S \ {m})

LastSlash(p) ==
    LET S == { k \in 1..Len(p) : p[k] = SLASH }
    IN  IF S = {} THEN 0 ELSE CHOOSE k \in S : \A l \in S : l <= k

\* os.path.dirname
Dirname(p) == SubSeq(p, 1, LastSlash(p) - 1)

\* s.split('/')[-1]
SplitLast(s) == SubSeq(s, LastSlash(s) + 1, Len(s))

\* s.replace(' ', '_')
ReplaceSpaces(s) == [k \in 1..Len(s) |-> IF s[k] = SPACE THEN UNDERSCORE ELSE s[k]]

FolderName(mrxs_file) == ReplaceSpaces(SplitLast(Dirname(mrxs_file)))

(***************************************************************************)
(* detect_empty_slide: a pixel buffer is a sequence of pixels [r, b, a];   *)
(* a threshold is a fraction <<numerator, denominator>>.                   *)
(***************************************************************************)
RECURSIVE SumOf(_, _)
SumOf(buf, ch) ==
    IF buf = <<>> THEN 0 ELSE Head(buf)[ch] + SumOf(Tail(buf), ch)

CountNonzero(buf, ch) == Cardinality({ k \in 1..Len(buf) : buf[k][ch] # 0 })

threshold_alpha_default == <<1, 2>>
threshold_red_blue_ratio_default == <<99, 100>>

detect_empty_slide_ge(buf, threshold_alpha, threshold_red_blue_ratio) ==
    LET red_pixels_count == SumOf(buf, "r")
        blue_pixels_count == SumOf(buf, "b")
    IN  IF CountNonzero(buf, "a") * threshold_alpha[2] > threshold_alpha[1] * Len(buf)
        THEN IF blue_pixels_count * threshold_red_blue_ratio[2]
                    >= threshold_red_blue_ratio[1] * (red_pixels_count + 1)
             THEN 0 ELSE 1
        ELSE 0

detect_empty_slide(buf, threshold_alpha, threshold_red_blue_ratio) ==
    LET red_pixels_count == SumOf(buf, "r")
        blue_pixels_count == SumOf(buf, "b")
        \* alpha_pixels_ratio > threshold_alpha, cross-multiplied
        alpha_over == CountNonzero(buf, "a") * threshold_alpha[2]
                          > threshold_alpha[1] * Len(buf)
        \* blue / (red + 1) > threshold_red_blue_ratio, cross-multiplied
        ratio_over == blue_pixels_count * threshold_red_blue_ratio[2]
                          > threshold_red_blue_ratio[1] * (red_pixels_count + 1)
    IN  IF alpha_over
        THEN IF ratio_over THEN 0 ELSE 1
        ELSE 0

\* the preview regions read for the tiles: transparent, reddish, bluish
SampleBuffers ==
    { << [r |-> 0, b |-> 0, a |-> 0] >>,
      << [r |-> 99, b |-> 0, a |-> 255] >>,
      << [r |-> 0, b |-> 99, a |-> 255] >> }

(***************************************************************************)
(* Geometry of the grid (main, lines 268-306)                              *)
(***************************************************************************)
RECURSIVE Pow2(_)
Pow2(n) == IF n <= 0 THEN 1 ELSE 2 * Pow2(n - 1)

zoom_const == 4

\* slide.get_best_level_for_downsample(1.0)
max_resolution_level == 0

MaxZoom(levels) == levels - max_resolution_level

\* level = num_levels - zoom
PreviewLevel(levels, zoom) == levels - zoom

\* the levels a slide has: 0 .. level_count - 1
ValidLevel(levels, level) == 0 <= level /\ level <= levels - 1

\* slide.level_dimensions[level]: a tuple takes a negative index down to -len
Indexable(levels, level) == -levels <= level /\ level <= levels - 1

WorkAreaMaxRes_noscale(wa, max_zoom, zoom) == wa

\* tuple(cord * 2 ** (max_zoom - zoom) for cord in work_area), max_zoom >= zoom
WorkAreaMaxRes(wa, max_zoom, zoom) ==
    [k \in 1..4 |-> wa[k] * Pow2(max_zoom - zoom)]

NumImages_ceil(lo, hi, size) == (hi - lo + size - 1) \div size - 1

\* int((hi - lo) / size), hi >= lo
NumImages(lo, hi, size) == (hi - lo) \div size

BoundaryBox_stride(wa, col, row, w, h) ==
    << wa[1] + (w - 1) * col, wa[2] + h * row,
       wa[1] + (w - 1) * col + w, wa[2] + h * row + h >>

BoundaryBox(wa, col, row, w, h) ==
    << wa[1] + w * col, wa[2] + h * row,
       wa[1] + w * (col + 1), wa[2] + h * (row + 1) >>

\* tuple(int(cord * 2 ** (zoom - max_zoom)) for cord in boundary_box), cord >= 0
BoundaryBoxSmall(bb, max_zoom, zoom) ==
    [k \in 1..4 |-> bb[k] \div Pow2(max_zoom - zoom)]

NextNum_always(n, flag) == n + 1

\* if flag == 1: num = num + 1
NextNum(n, flag) == IF flag = 1 THEN n + 1 ELSE n

SlideGrid(n, boundary_box, boundary_box_small, flag) ==
    [num |-> n, boundary_box |-> boundary_box,
     boundary_box_small |-> boundary_box_small, flag |-> flag]

(***************************************************************************)
(* Output paths                                                            *)
(***************************************************************************)
\* export_folder/map_{folder_name}_{image_width}x{image_height}.{ext}
MapPath(mrxs_file, ext) ==
    [kind |-> "map", folder |-> FolderName(mrxs_file), fmt |-> ext,
     w |-> image_width, h |-> image_height, n |-> 0]

TilePath_flag(mrxs_file, sg) ==
    [kind |-> "tile", folder |-> FolderName(mrxs_file), fmt |-> export_format,
     w |-> image_width, h |-> image_height, n |-> sg.flag]

\* export_folder/{folder_name}_{fmt}_{W}x{H}/slide_{num}_res_{W}x{H}.{fmt}
TilePath(mrxs_file, sg) ==
    [kind |-> "tile", folder |-> FolderName(mrxs_file), fmt |-> export_format,
     w |-> image_width, h |-> image_height, n |-> sg.num]

\* files of the folder export_folder/{folder_name}_{fmt}_{W}x{H}
FolderFiles(files, folder) ==
    { p \in DOMAIN files : p.kind = "tile" /\ p.folder = folder }

\* get_directory_size, every file counted as one unit; '-' when the folder is absent
DirectorySize(files, folder) ==
    IF FolderFiles(files, folder) = {} THEN -1
    ELSE Cardinality(FolderFiles(files, folder))

Put(files, p, content) ==
    [q \in DOMAIN files \cup {p} |-> IF q = p THEN content ELSE files[q]]

(***************************************************************************)
(* main                                                                    *)
(***************************************************************************)
\* lines 242-254: the configuration, the sorted slide list, the empty report
Init ==
    /\ \E S \in SUBSET CandidatePaths :
          /\ S # {}
          /\ Cardinality(S) <= MaxSlides
          /\ mrxs_files = SortedList(S)
    /\ \E ts \in TileSizes : image_width = ts[1] /\ image_height = ts[2]
    /\ save_cut_images \in BOOLEAN
    /\ export_format \in ExportFormats
    /\ pc = "open"
    /\ idx = 1
    /\ num_levels = 0
    /\ work_area = NoBox
    /\ work_area_max_res = <<0, 0, 0, 0>>
    /\ num_images_x = 0
    /\ num_images_y = 0
    /\ i = 0
    /\ j = 0
    /\ num = 0
    /\ slide_grids = <<>>
    /\ filename = NoPath
    /\ tasks = <<>>
    /\ written = {}
    /\ fs = <<>>
    /\ report = <<>>
    /\ report_xlsx = <<>>
    /\ status = [k \in 1..Len(mrxs_files) |-> "todo"]
    /\ args = <<>>
    /\ result = NoResult

\* an exception that main does not catch ends the run
Raise(what) ==
    /\ pc' = "crashed"
    /\ status' = [status EXCEPT ![idx] = what]

\* line 255: the slide list is exhausted
LoopEnd ==
    /\ pc = "open"
    /\ idx > Len(mrxs_files)
    /\ pc' = "done"
    /\ UNCHANGED <<cfgVars, idx, num_levels, work_area, planVars, filename, tasks,
                   written, fs, report, report_xlsx, status, pureVars>>

\* lines 257-258: openslide.open_slide raises or gives a slide
OpenSlide ==
    /\ pc = "open"
    /\ idx <= Len(mrxs_files)
    /\ \E ok \in BOOLEAN, lc \in LevelCounts :
          IF ok
          THEN /\ num_levels' = lc
               /\ pc' = "detect"
               /\ status' = [status EXCEPT ![idx] = "open"]
          ELSE /\ Raise("decoder_error")
               /\ UNCHANGED num_levels
    /\ UNCHANGED <<cfgVars, idx, work_area, planVars, filename, tasks, written, fs,
                   report, report_xlsx, pureVars>>

\* lines 268-273: level_dimensions[level] raises IndexError when level is no
\* index of the tuple; the overview read may raise; a level the slide does not
\* have gives no pixels; getbbox gives None on a blank image
DetectWorkArea ==
    /\ pc = "detect"
    /\ \E ok \in BOOLEAN, bbox \in BBoxes \cup {NoBox} :
          LET level == PreviewLevel(num_levels, zoom_const)
          IN  IF ~Indexable(num_levels, level)
              THEN /\ Raise("level_error")
                   /\ UNCHANGED work_area
              ELSE IF ~ok
              THEN /\ Raise("decoder_error")
                   /\ UNCHANGED work_area
              ELSE /\ work_area' = IF ValidLevel(num_levels, level) THEN bbox ELSE NoBox
                   /\ pc' = "plan"
                   /\ UNCHANGED status
    /\ UNCHANGED <<cfgVars, idx, num_levels, planVars, filename, tasks, written, fs,
                   report, report_xlsx, pureVars>>

\* lines 276-293: iterating None raises TypeError; else the grid extents
PlanGrid ==
    /\ pc = "plan"
    /\ IF work_area = NoBox
       THEN /\ Raise("blank")
            /\ UNCHANGED planVars
       ELSE LET wa == WorkAreaMaxRes(work_area, MaxZoom(num_levels), zoom_const)
            IN  /\ work_area_max_res' = wa
                /\ num_images_x' = NumImages(wa[1], wa[3], image_width)
                /\ num_images_y' = NumImages(wa[2], wa[4], image_height)
                /\ num' = 0
                /\ slide_grids' = <<>>
                /\ i' = 0
                /\ j' = 0
                /\ pc' = "crop"
                /\ UNCHANGED status
    /\ UNCHANGED <<cfgVars, idx, num_levels, work_area, filename, tasks, written, fs,
                   report, report_xlsx, pureVars>>

\* lines 294-318: one iteration of the nested loop (j outer, i inner)
CropTile ==
    /\ pc = "crop"
    /\ \E buf \in SampleBuffers :
          LET boundary_box == BoundaryBox(work_area_max_res, i, j,
                                          image_width, image_height)
              boundary_box_small == BoundaryBoxSmall(boundary_box,
                                          MaxZoom(num_levels), zoom_const)
              flag == detect_empty_slide(buf, threshold_alpha_default,
                                         threshold_red_blue_ratio_default)
          IN  /\ num' = NextNum(num, flag)
              /\ slide_grids' = Append(slide_grids,
                     SlideGrid(num', boundary_box, boundary_box_small, flag))
    /\ IF i < num_images_x
       THEN /\ i' = i + 1
            /\ UNCHANGED <<j, pc>>
       ELSE IF j < num_images_y
       THEN /\ i' = 0
            /\ j' = j + 1
            /\ UNCHANGED pc
       ELSE /\ pc' = "draw"
            /\ UNCHANGED <<i, j>>
    /\ UNCHANGED <<cfgVars, idx, num_levels, work_area, work_area_max_res,
                   num_images_x, num_images_y, filename, tasks, written, fs,
                   report, report_xlsx, status, pureVars>>

\* a file keeps what was written and the slide whose iteration wrote it
File(content) == [content |-> content, by |-> idx]

\* draw_gridmap, lines 111-145: the overview image, then the manifest
draw_gridmap(files, mrxs_file, grids) ==
    Put(Put(files, MapPath(mrxs_file, "png"), File("image")),
        MapPath(mrxs_file, "json"), File(grids))

\* lines 329-334: one delayed export_region_images per SlideGrid
Dispatch(grids) == [k \in 1..Len(grids) |-> "pending"]

\* line 323, then lines 328-334
DrawGridmap ==
    /\ pc = "draw"
    /\ fs' = draw_gridmap(fs, mrxs_files[idx], slide_grids)
    /\ filename' = MapPath(mrxs_files[idx], "json")
    /\ written' = {}
    /\ IF save_cut_images
       THEN /\ tasks' = Dispatch(slide_grids)
            /\ pc' = "export"
       ELSE /\ tasks' = <<>>
            /\ pc' = "report"
    /\ UNCHANGED <<cfgVars, idx, num_levels, work_area, planVars, report,
                   report_xlsx, status, pureVars>>

\* lines 116-119: neither font can be loaded while a content tile is annotated
DrawGridmapFails ==
    /\ pc = "draw"
    /\ \E k \in 1..Len(slide_grids) : slide_grids[k].flag = 1
    /\ Raise("font_error")
    /\ UNCHANGED <<cfgVars, idx, num_levels, work_area, planVars, filename, tasks,
                   written, fs, report, report_xlsx, pureVars>>

\* export_region_images, line 172 and lines 173-179: a background tile returns at
\* once, a content tile reads its region
TaskRead(k) ==
    /\ pc = "export"
    /\ tasks[k] = "pending"
    /\ tasks' = [tasks EXCEPT ![k] = IF slide_grids[k].flag = 1 THEN "running" ELSE "done"]
    /\ UNCHANGED <<cfgVars, pc, idx, num_levels, work_area, planVars, filename,
                   written, fs, report, report_xlsx, status, pureVars>>

\* export_region_images, lines 180-195: the tile file is saved
TaskSave(k) ==
    /\ pc = "export"
    /\ tasks[k] = "running"
    /\ LET path == TilePath(mrxs_files[idx], slide_grids[k])
       IN  /\ fs' = Put(fs, path, File(k))
           /\ written' = written \cup {[path |-> path, tile |-> k]}
    /\ tasks' = [tasks EXCEPT ![k] = "done"]
    /\ UNCHANGED <<cfgVars, pc, idx, num_levels, work_area, planVars, filename,
                   report, report_xlsx, status, pureVars>>

\* export_region_images raises (the region read or the save fails)
TaskFail(k) ==
    /\ pc = "export"
    /\ tasks[k] = "running"
    /\ tasks' = [tasks EXCEPT ![k] = "failed"]
    /\ UNCHANGED <<cfgVars, pc, idx, num_levels, work_area, planVars, filename,
                   written, fs, report, report_xlsx, status, pureVars>>

JoinReady_nowait(t) == \A k \in DOMAIN t : t[k] # "failed"

\* line 335: Parallel() returns when every task has returned
JoinReady(t) == \A k \in DOMAIN t : t[k] = "done"

Join ==
    /\ pc = "export"
    /\ JoinReady(tasks)
    /\ pc' = "report"
    /\ UNCHANGED <<cfgVars, idx, num_levels, work_area, planVars, filename, tasks,
                   written, fs, report, report_xlsx, status, pureVars>>

\* line 335: Parallel() re-raises a task's exception; tasks that have not
\* finished by then are abandoned, and main does not catch it
JoinRaise ==
    /\ pc = "export"
    /\ \E k \in DOMAIN tasks : tasks[k] = "failed"
    /\ Raise("export_error")
    /\ UNCHANGED <<cfgVars, idx, num_levels, work_area, planVars, filename, tasks,
                   written, fs, report, report_xlsx, pureVars>>

RECURSIVE SumFlags(_)
SumFlags(grids) ==
    IF grids = <<>> THEN 0 ELSE Head(grids).flag + SumFlags(Tail(grids))

\* lines 341-351: the row of the current slide
ReportRow(mrxs_file) ==
    [mrxs_file |-> mrxs_file,
     json |-> filename,
     folder_name |-> <<FolderName(mrxs_file), export_format, image_width, image_height>>,
     image_num |-> SumFlags(slide_grids),
     size |-> DirectorySize(fs, FolderName(mrxs_file))]

ReportAppend_overwrite(rep, row) == <<row>>

\* line 351: report.loc[len(report)] = row
ReportAppend(rep, row) == Append(rep, row)

\* lines 340-353, and the loop goes to the next slide
Report ==
    /\ pc = "report"
    /\ report' = ReportAppend(report, ReportRow(mrxs_files[idx]))
    /\ report_xlsx' = report'
    /\ status' = [status EXCEPT ![idx] = "reported"]
    /\ idx' = idx + 1
    /\ pc' = "open"
    /\ UNCHANGED <<cfgVars, num_levels, work_area, planVars, filename, tasks,
                   written, fs, pureVars>>

Next ==
    \/ LoopEnd
    \/ OpenSlide
    \/ DetectWorkArea
    \/ PlanGrid
    \/ CropTile
    \/ DrawGridmap
    \/ DrawGridmapFails
    \/ \E k \in DOMAIN tasks : TaskRead(k)
    \/ \E k \in DOMAIN tasks : TaskSave(k)
    \/ \E k \in DOMAIN tasks : TaskFail(k)
    \/ Join
    \/ JoinRaise
    \/ Report

Spec == Init /\ [][Next]_vars

(***************************************************************************)
(* The planning loop on its own (lines 276-318), over more work areas      *)
(***************************************************************************)
PlanBBoxes ==
    { <<x0, y0, x0 + w, y0 + h>> : x0 \in 0..1, y0 \in 0..1, w \in 1..MaxW, h \in 1..MaxH }

PlanTileSizes == { <<2, 2>>, <<3, 2>> }

InitPlan ==
    /\ mrxs_files = << <<99, 47, 115>> >>
    /\ \E ts \in PlanTileSizes : image_width = ts[1] /\ image_height = ts[2]
    /\ save_cut_images = FALSE
    /\ export_format = "png"
    /\ pc = "plan"
    /\ idx = 1
    /\ num_levels \in { lc \in LevelCounts : ValidLevel(lc, PreviewLevel(lc, zoom_const)) }
    /\ work_area \in PlanBBoxes \cup {NoBox}
    /\ work_area_max_res = <<0, 0, 0, 0>>
    /\ num_images_x = 0
    /\ num_images_y = 0
    /\ i = 0
    /\ j = 0
    /\ num = 0
    /\ slide_grids = <<>>
    /\ filename = NoPath
    /\ tasks = <<>>
    /\ written = {}
    /\ fs = <<>>
    /\ report = <<>>
    /\ report_xlsx = <<>>
    /\ status = <<"open">>
    /\ args = <<>>
    /\ result = NoResult

NextPlan ==
    \/ PlanGrid
    \/ CropTile

SpecPlan == InitPlan /\ [][NextPlan]_vars

(***************************************************************************)
(* Functions applied on their own                                          *)
(***************************************************************************)
\* every variable of main at rest
MainIdle ==
    /\ mrxs_files = <<>>
    /\ image_width = 0
    /\ image_height = 0
    /\ save_cut_images = FALSE
    /\ export_format = "png"
    /\ idx = 1
    /\ num_levels = 0
    /\ work_area = NoBox
    /\ work_area_max_res = <<0, 0, 0, 0>>
    /\ num_images_x = 0
    /\ num_images_y = 0
    /\ i = 0
    /\ j = 0
    /\ num = 0
    /\ slide_grids = <<>>
    /\ filename = NoPath
    /\ tasks = <<>>
    /\ written = {}
    /\ fs = <<>>
    /\ report = <<>>
    /\ report_xlsx = <<>>
    /\ status = <<>>

mainVars == <<cfgVars, idx, num_levels, work_area, planVars, filename, tasks,
              written, fs, report, report_xlsx, status>>

Pixels ==
    { [r |-> 0, b |-> 0, a |-> 0], [r |-> 99, b |-> 99, a |-> 0],
      [r |-> 99, b |-> 0, a |-> 255], [r |-> 0, b |-> 99, a |-> 255],
      [r |-> 99, b |-> 99, a |-> 255] }

Buffers == UNION { [1..n -> Pixels] : n \in 1..MaxPixels }

AlphaThresholds == { threshold_alpha_default, <<1, 5>> }
RatioThresholds == { threshold_red_blue_ratio_default, <<1, 2>> }

InitClassifier ==
    /\ MainIdle
    /\ pc = "call"
    /\ \E buf \in Buffers, ta \in AlphaThresholds, tr \in RatioThresholds :
          args = [buf |-> buf, threshold_alpha |-> ta, threshold_red_blue_ratio |-> tr]
    /\ result = NoResult

Classify ==
    /\ pc = "call"
    /\ result' = << detect_empty_slide(args.buf, args.threshold_alpha,
                                       args.threshold_red_blue_ratio) >>
    /\ pc' = "return"
    /\ UNCHANGED <<mainVars, args>>

SpecClassifier == InitClassifier /\ [][Classify]_vars

\* lines 276-282 with zoom as an input
ScaleBBoxes == { <<0, 0, 2000, 1500>>, <<0, 0, 1000, 750>>, <<10, 20, 500, 375>> }
ScaleTileSizes == { <<500, 500>>, <<256, 128>> }

InitScale ==
    /\ MainIdle
    /\ pc = "call"
    /\ \E lc \in 1..MaxLevels, wa \in ScaleBBoxes, ts \in ScaleTileSizes :
          \E zoom \in 0..lc :
             args = [level_count |-> lc, zoom |-> zoom, work_area |-> wa,
                     image_width |-> ts[1], image_height |-> ts[2]]
    /\ result = NoResult

ScaleAndCount ==
    /\ pc = "call"
    /\ LET wa == WorkAreaMaxRes(args.work_area, MaxZoom(args.level_count), args.zoom)
           nx == NumImages(wa[1], wa[3], args.image_width)
           ny == NumImages(wa[2], wa[4], args.image_height)
       IN  result' = << [work_area_max_res |-> wa, cols |-> nx + 1, rows |-> ny + 1,
                         total |-> (nx + 1) * (ny + 1)] >>
    /\ pc' = "return"
    /\ UNCHANGED <<mainVars, args>>

SpecScale == InitScale /\ [][ScaleAndCount]_vars

(***************************************************************************)
(* Properties                                                              *)
(***************************************************************************)
GridCols == (work_area_max_res[3] - work_area_max_res[1]) \div image_width + 1
GridRows == (work_area_max_res[4] - work_area_max_res[2]) \div image_height + 1

\* the box of the cell (row, col) of the grid over work_area_max_res
CellBox(row, col) ==
    << work_area_max_res[1] + col * image_width,
       work_area_max_res[2] + row * image_height,
       work_area_max_res[1] + (col + 1) * image_width,
       work_area_max_res[2] + (row + 1) * image_height >>

\* C1: the planning loop emits exactly (floor(w/tw)+1) * (floor(h/th)+1) tiles,
\* and the k-th emitted tile is the cell (row = k div cols, col = k mod cols),
\* k counted from 0: at every point of the loop the tiles emitted so far are
\* the first cells in row-major order, and the loop ends with all of them.
C1_GridRowMajor ==
    pc \in {"crop", "draw"} =>
        /\ Len(slide_grids) <= GridCols * GridRows
        /\ pc = "draw" => Len(slide_grids) = GridCols * GridRows
        /\ \A k \in 1..Len(slide_grids) :
              slide_grids[k].boundary_box
                  = CellBox((k - 1) \div GridCols, (k - 1) % GridCols)

\* C1 witness: a finished grid of 2 columns and 2 rows whose work area width is
\* not a multiple of the tile width
C1_Witness ==
    /\ pc = "draw"
    /\ GridCols = 2
    /\ GridRows = 2
    /\ Len(slide_grids) = 4
    /\ (work_area_max_res[3] - work_area_max_res[1]) % image_width # 0

ContentUpTo(k) == { m \in 1..k : slide_grids[m].flag = 1 }

\* C2: each tile's sequence number is the number of content tiles at or before
\* it in scan order (so content tiles get 1..K without gaps or repeats and a
\* background tile carries the last number, 0 if none precedes it).
C2_SequenceNumbers ==
    pc \in {"crop", "draw"} =>
        \A k \in 1..Len(slide_grids) :
            /\ slide_grids[k].flag \in {0, 1}
            /\ slide_grids[k].num = Cardinality(ContentUpTo(k))

\* C2 witness: classifier outputs [1,0,1,1,0] numbered [1,1,2,3,3]
C2_Witness ==
    /\ Len(slide_grids) = 5
    /\ [k \in 1..5 |-> slide_grids[k].flag] = <<1, 0, 1, 1, 0>>
    /\ [k \in 1..5 |-> slide_grids[k].num] = <<1, 1, 2, 3, 3>>

Opaque(buf) == { k \in 1..Len(buf) : buf[k].a # 0 }

\* alpha_ratio > threshold, as fractions
AlphaAbove(buf, t) == Cardinality(Opaque(buf)) * t[2] > t[1] * Len(buf)

\* blue_sum / (red_sum + 1) <= threshold, as fractions
RatioAtMost(buf, t) == SumOf(buf, "b") * t[2] <= t[1] * (SumOf(buf, "r") + 1)

ScenarioC10 ==
    /\ pc = "return"
    /\ args.level_count = 4
    /\ args.zoom = 3
    /\ PreviewLevel(args.level_count, args.zoom) = 1
    /\ MaxZoom(args.level_count) = 4
    /\ args.work_area = <<0, 0, 2000, 1500>>
    /\ args.image_width = 500
    /\ args.image_height = 500

Terminated == pc \in {"done", "crashed"}

Slides == 1..Len(mrxs_files)

HasRow(k) == \E r \in 1..Len(report_xlsx) : report_xlsx[r].mrxs_file = mrxs_files[k]

\* C4 as stated: when the run has ended, a slide that was blank or that the
\* decoder could not open or read has produced no tiles, and every later slide
\* of the sorted list has been processed and has its report row.
C4_SkipAndContinue ==
    Terminated =>
        \A k \in Slides :
            status[k] \in {"blank", "decoder_error"} =>
                \A m \in Slides :
                    m > k => status[m] # "todo" /\ (status[m] = "reported" => HasRow(m))

ContentTiles == { k \in 1..Len(slide_grids) : slide_grids[k].flag = 1 }

\* C5 as stated: when the run has ended and an export task of a slide failed,
\* every other content tile of that slide has its file written and the slide
\* has its report row.
C5_FailureIsolated ==
    (Terminated /\ \E t \in DOMAIN tasks : tasks[t] = "failed") =>
        /\ \A t \in ContentTiles :
              tasks[t] # "failed" =>
                  \E w \in written : w.tile = t
        /\ HasRow(idx)

\* the row the report step writes for the slide of the current iteration
IsRowOfCurrentSlide(row) ==
    /\ row.mrxs_file = mrxs_files[idx]
    /\ row.json = MapPath(mrxs_files[idx], "json")
    /\ row.image_num = Cardinality(ContentTiles)

RowsMatchCompleted ==
    /\ Len(report_xlsx) = Cardinality({ k \in Slides : status[k] = "reported" })
    /\ \A k \in Slides :
          status[k] = "reported" <=>
              /\ k <= Len(report_xlsx)
              /\ report_xlsx[k].mrxs_file = mrxs_files[k]

RowsOnlyAppended ==
    \/ report_xlsx' = report_xlsx
    \/ /\ pc = "report"
       /\ Len(report_xlsx') = Len(report_xlsx) + 1
       /\ SubSeq(report_xlsx', 1, Len(report_xlsx)) = report_xlsx
       /\ IsRowOfCurrentSlide(report_xlsx'[Len(report_xlsx')])

\* C6: at every point of the run, a crash included, report.xlsx holds exactly
\* one row for each slide whose processing has completed, in processing order,
\* and no other row; a step either leaves it alone or appends the row of the
\* slide that completes, leaving the earlier rows as they were.
C6_ReportCumulative == []RowsMatchCompleted /\ [][RowsOnlyAppended]_vars

\* C6 witness: the run crashed on its second slide and the first slide's row is
\* in report.xlsx
C6_Witness ==
    /\ pc = "crashed"
    /\ idx = 2
    /\ Len(report_xlsx) = 1
    /\ report_xlsx[1].mrxs_file = mrxs_files[1]

\* C7: while the export tasks run no two of them write the same path, and when
\* the export phase has finished without failure exactly one file has been
\* written for each content tile and none for a background tile, so the number
\* of files written is the content tile count.
C7_OneFilePerContentTile ==
    /\ pc \in {"export", "report"} =>
          \A w1, w2 \in written : w1.path = w2.path => w1.tile = w2.tile
    /\ (pc = "report" /\ save_cut_images) =>
          /\ { w.tile : w \in written } = ContentTiles
          /\ Cardinality({ w.path : w \in written }) = SumFlags(slide_grids)
          /\ \A w \in written :
                /\ w.path \in DOMAIN fs
                /\ fs[w.path] = [content |-> w.tile, by |-> idx]

\* C7 witness: an export that has finished with two content tiles and a
\* background tile
C7_Witness ==
    /\ pc = "report"
    /\ save_cut_images
    /\ Cardinality(ContentTiles) = 2
    /\ Len(slide_grids) = 3
    /\ Cardinality(written) = 2

Manifests(files) == { p \in DOMAIN files : p.kind = "map" /\ p.fmt = "json" }

\* C8 as stated: a manifest, once written, is never changed or overwritten by
\* any later step of the run.
C8_ManifestImmutable ==
    [][\A p \in Manifests(fs) : p \in DOMAIN fs' /\ fs'[p] = fs[p]]_vars

\* The extent of the overwriting: a manifest, once written, is changed only by
\* draw_gridmap of a later slide whose folder name (last component of its
\* directory, spaces replaced by underscores) is that of the slide that wrote it.
ManifestChangedOnlyBySameFolder ==
    [][\A p \in Manifests(fs) :
          /\ p \in DOMAIN fs'
          /\ fs'[p] # fs[p] =>
                /\ pc = "draw"
                /\ fs[p].by < idx
                /\ FolderName(mrxs_files[fs[p].by]) = FolderName(mrxs_files[idx])
                /\ fs'[p].by = idx]_vars

TaskStarted == \E t \in DOMAIN tasks : tasks[t] \in {"running", "done", "failed"}
TaskUnfinished == \E t \in DOMAIN tasks : tasks[t] \in {"pending", "running"}

PhasesOrdered ==
    \* an export task has started only after the whole grid was classified and
    \* the manifest written
    /\ (pc = "export" /\ TaskStarted) =>
          /\ Len(slide_grids) = (num_images_x + 1) * (num_images_y + 1)
          /\ fs[MapPath(mrxs_files[idx], "json")] = [content |-> slide_grids, by |-> idx]
    \* no step of main other than the export phase runs with a task unfinished
    /\ pc \in {"open", "detect", "plan", "crop", "draw", "report", "done"} =>
          ~TaskUnfinished
    \* a slide is being processed only when all slides before it are reported
    /\ pc \in {"detect", "plan", "crop", "draw", "export", "report"} =>
          /\ Len(report_xlsx) = idx - 1
          /\ \A k \in 1..(idx - 1) : status[k] = "reported"

NothingWrittenDuringExport ==
    pc = "export" =>
        /\ slide_grids' = slide_grids
        /\ idx' = idx
        /\ report_xlsx' = report_xlsx
        /\ \A p \in DOMAIN fs : p.kind = "map" => fs'[p] = fs[p]

\* C9: the whole grid is classified and numbered and the manifest written
\* before the first export task starts; nothing of them is written during the
\* export phase; no step of the next slide begins before every export task of
\* the slide has finished and its report row is written.
C9_PhasesOrdered == []PhasesOrdered /\ [][NothingWrittenDuringExport]_vars

\* C9 witness: export tasks of the second slide are running, one still pending,
\* with the first slide reported
C9_Witness ==
    /\ pc = "export"
    /\ idx = 2
    /\ Len(report_xlsx) = 1
    /\ \E t \in DOMAIN tasks : tasks[t] = "running"
    /\ \E t \in DOMAIN tasks : tasks[t] = "pending"

\* the pixels (x, y) of a box, left and upper edge included, right and lower not
InBox(x, y, box) == box[1] <= x /\ x < box[3] /\ box[2] <= y /\ y < box[4]

\* export_region_images, lines 174-179: the region read for a tile, from its
\* location and size
ExportRegion(sg) ==
    LET location == << sg.boundary_box[1], sg.boundary_box[2] >>
        size == << sg.boundary_box[3] - sg.boundary_box[1],
                   sg.boundary_box[4] - sg.boundary_box[2] >>
    IN  << location[1], location[2], location[1] + size[1], location[2] + size[2] >>

\* two boxes share a pixel
Overlap(a, b) == a[1] < b[3] /\ b[1] < a[3] /\ a[2] < b[4] /\ b[2] < a[4]

TilesAt(x, y) == { k \in 1..Len(slide_grids) : InBox(x, y, slide_grids[k].boundary_box) }

\* C11: when the grid is planned, every tile's full-resolution box is
\* image_width x image_height and starts at the work area's origin plus
\* (col * width, row * height); distinct tiles do not overlap; every pixel of
\* the work area lies in exactly one tile; the regions read by the export tasks
\* of distinct tiles do not overlap.
C11_TilesPartitionWorkArea ==
    pc = "draw" =>
        /\ \A k \in 1..Len(slide_grids) :
              LET bb == slide_grids[k].boundary_box
                  row == (k - 1) \div GridCols
                  col == (k - 1) % GridCols
              IN  /\ bb[3] - bb[1] = image_width
                  /\ bb[4] - bb[2] = image_height
                  /\ bb[1] = work_area_max_res[1] + col * image_width
                  /\ bb[2] = work_area_max_res[2] + row * image_height
        /\ \A k, m \in 1..Len(slide_grids) :
              k # m =>
                  /\ ~Overlap(slide_grids[k].boundary_box, slide_grids[m].boundary_box)
                  /\ ~Overlap(ExportRegion(slide_grids[k]), ExportRegion(slide_grids[m]))
        /\ \A x \in work_area_max_res[1]..(work_area_max_res[3] - 1),
              y \in work_area_max_res[2]..(work_area_max_res[4] - 1) :
              Cardinality(TilesAt(x, y)) = 1

\* C11 witness: a planned grid of several columns and rows over a work area
\* that does not start at the origin and whose width is not a multiple of the
\* tile width
C11_Witness ==
    /\ pc = "draw"
    /\ GridCols >= 2
    /\ GridRows >= 2
    /\ work_area_max_res[1] > 0
    /\ work_area_max_res[2] > 0
    /\ (work_area_max_res[3] - work_area_max_res[1]) % image_width # 0

\* C12 as stated: for every slide the pipeline has opened, 0 <= zoom < level_count
\* and the preview level level_count - zoom is a level of the slide.
C12_ZoomAndLevelValid ==
    pc \in {"detect", "plan", "crop", "draw", "export", "report"} =>
        /\ 0 <= zoom_const
        /\ zoom_const < num_levels
        /\ ValidLevel(num_levels, PreviewLevel(num_levels, zoom_const))

\* The extent of the failure: the preview level is a level of the slide exactly
\* when the slide has at least zoom levels, and only such a slide gets a grid.
LevelValidFromZoomLevels ==
    pc \in {"detect", "plan", "crop", "draw", "export", "report"} =>
        /\ ValidLevel(num_levels, PreviewLevel(num_levels, zoom_const))
              <=> num_levels >= zoom_const
        /\ pc \in {"crop", "draw", "export", "report"} => num_levels >= zoom_const

====
